---- MODULE Spec2Model ----
(***************************************************************************)
(* A model of the three.js wrapper: Engine (render loop, resize, dispose), *)
(* Scene (tracked GameObjects and the render graph), GameObject (named     *)
(* animations, custom updates, per-frame update) and the color resolver.   *)
(*                                                                         *)
(* The specifications share the variables:                                 *)
(*   SpecEngine  one Engine driven by run/stop/dispose, frame callbacks    *)
(*               and window resize events;                                 *)
(*   SpecScene   one Scene driven by add/remove/findByName/update/dispose; *)
(*   SpecObject  one GameObject driven by spin/float/onUpdate/             *)
(*               stopAnimation/clearAnimations/update;                     *)
(*   SpecSpin    one GameObject that only spins, over all speeds;          *)
(*   SpecFloat   one GameObject that only floats, over a sine period;      *)
(*   SpecColor   parseColor over strings, numbers and other values;        *)
(*   SpecClear   one GameObject whose callbacks call clearAnimations;      *)
(*   SpecReenter one Engine and its scenes, with update callbacks that     *)
(*               call Scene.remove, Engine.run and Engine.dispose.         *)
(* lastOp and calls record the most recent operation and the calls it made *)
(* on its collaborators (browser, renderer, scenes, objects, callbacks).   *)
(***************************************************************************)
EXTENDS Integers, Sequences, FiniteSets, TLC

VARIABLES
    \* ---- Engine ----
    isRunning,        \* Engine.isRunning
    activeScene,      \* Engine.activeScene (Null or a scene)
    pending,          \* number of frame callbacks requestAnimationFrame holds
    listeners,        \* window's 'resize' listeners
    winSize,          \* <<window.innerWidth, window.innerHeight>>
    rendererSize,     \* size last given to renderer.setSize
    rendererDisposed, \* renderer.dispose() was called
    attached,         \* renderer.domElement is a child of the container
    aspect,           \* camera.aspect of every scene, as a reduced fraction
    now,              \* the browser's time
    clock,            \* the THREE.Clock of the engine
    \* ---- Scene ----
    gameObjects,      \* Scene.gameObjects
    children,         \* Scene.scene.children (the render graph)
    prevOp,           \* the Scene operation performed before the last one
    \* ---- GameObject ----
    transform,        \* mesh.position / mesh.rotation / mesh.scale
    animations,       \* GameObject._animations, in Map iteration order
    customUpdates,    \* GameObject._customUpdates
    lastSet,          \* per name, the function last given to _setAnimation
    hook,             \* per object of the Scene, what its onUpdate callback does
    \* ---- observation ----
    lastOp,           \* the operation performed by the last step
    calls             \* the calls that operation made, in order

engineVars == <<isRunning, activeScene, pending, listeners, winSize, rendererSize,
                rendererDisposed, attached, aspect, now, clock>>
sceneVars == <<gameObjects, children, prevOp>>
objectVars == <<transform, animations, customUpdates, lastSet, hook>>
vars == <<engineVars, sceneVars, objectVars, lastOp, calls>>

\* ------------------------------------------------------------------ bounds
MaxPending == 3
MaxTime == 2
MaxTracked == 3
MaxCustom == 2
MaxCoord == 2

\* ------------------------------------------------------------- common
Null == "null"

Op(name, arg, ret) == [name |-> name, arg |-> arg, ret |-> ret]

Call(fn, on, a, b) == [fn |-> fn, on |-> on, a |-> a, b |-> b]

RECURSIVE GCD(_, _)
GCD(a, b) == IF b = 0 THEN a ELSE GCD(b, a % b)

\* width / height, kept exact
Ratio(w, h) == <<w \div GCD(w, h), h \div GCD(w, h)>>

\* ================================================================= Engine
Scenes == {"A", "B"}

WinSizes == {<<4, 2>>, <<3, 3>>}

\* Function.prototype.bind returns a new function object
Bind(f) == [f EXCEPT !.bound = TRUE]

AddEventListener(ls, f) == ls \cup {f}

RemoveEventListener(ls, f) == ls \ {f}

\* the method itself, as this._onResize names it
OnResizeMethod == [fn |-> "_onResize", bound |-> FALSE]

\* THREE.Clock.getDelta as the engine uses it (autoStart)
GetDelta(c, t) ==
    IF ~c.running
    THEN [clock |-> [running |-> TRUE, oldTime |-> t, elapsedTime |-> 0], ret |-> 0]
    ELSE [clock |-> [running |-> TRUE, oldTime |-> t,
                     elapsedTime |-> c.elapsedTime + (t - c.oldTime)],
          ret |-> t - c.oldTime]

\* THREE.Clock.getElapsedTime
GetElapsedTime(c, t) ==
    LET d == GetDelta(c, t) IN [clock |-> d.clock, ret |-> d.clock.elapsedTime]

AnimateNoGuard(running, scene, pend) ==
    LET d == GetDelta(clock, now)
        e == GetElapsedTime(d.clock, now)
    IN /\ pending' = pend + 1
       /\ clock' = e.clock
       /\ calls' = <<Call("requestAnimationFrame", "window", 0, 0)>> \o
                   (IF scene # Null
                    THEN <<Call("update", scene, d.ret, e.ret),
                           Call("render", scene, 0, 0)>>
                    ELSE <<>>)

AnimateLateGuard(running, scene, pend) ==
    IF ~running
    THEN /\ pending' = pend + 1
         /\ clock' = clock
         /\ calls' = <<Call("requestAnimationFrame", "window", 0, 0)>>
    ELSE AnimateNoGuard(running, scene, pend)

AnimateDrawFirst(running, scene, pend) ==
    IF ~running
    THEN /\ pending' = pend
         /\ clock' = clock
         /\ calls' = <<>>
    ELSE LET d == GetDelta(clock, now)
             e == GetElapsedTime(d.clock, now)
         IN /\ pending' = pend + 1
            /\ clock' = e.clock
            /\ calls' = <<Call("requestAnimationFrame", "window", 0, 0)>> \o
                        (IF scene # Null
                         THEN <<Call("render", scene, 0, 0),
                                Call("update", scene, d.ret, e.ret)>>
                         ELSE <<>>)

\* Engine._animate, entered with the engine's fields at the given values and
\* pend callbacks still held by requestAnimationFrame
Animate(running, scene, pend) ==
    IF ~running
    THEN /\ pending' = pend
         /\ clock' = clock
         /\ calls' = <<>>
    ELSE LET d == GetDelta(clock, now)
             e == GetElapsedTime(d.clock, now)
         IN /\ pending' = pend + 1
            /\ clock' = e.clock
            /\ calls' = <<Call("requestAnimationFrame", "window", 0, 0)>> \o
                        (IF scene # Null
                         THEN <<Call("update", scene, d.ret, e.ret),
                                Call("render", scene, 0, 0)>>
                         ELSE <<>>)

\* Engine.run(scene)
Run(scene) ==
    /\ pending < MaxPending
    /\ activeScene' = scene
    /\ isRunning' = TRUE
    /\ Animate(TRUE, scene, pending)
    /\ lastOp' = Op("run", scene, Null)
    /\ UNCHANGED <<listeners, winSize, rendererSize, rendererDisposed, attached,
                   aspect, now>>

\* Engine.stop()
Stop ==
    /\ isRunning' = FALSE
    /\ lastOp' = Op("stop", Null, Null)
    /\ calls' = <<>>
    /\ UNCHANGED <<activeScene, pending, listeners, winSize, rendererSize,
                   rendererDisposed, attached, aspect, now, clock>>

\* the browser fires one scheduled frame callback: the bound _animate
Frame ==
    /\ pending > 0
    /\ Animate(isRunning, activeScene, pending - 1)
    /\ lastOp' = Op("frame", Null, Null)
    /\ UNCHANGED <<isRunning, activeScene, listeners, winSize, rendererSize,
                   rendererDisposed, attached, aspect, now>>

OnResizeEveryScene(w, h) ==
    /\ rendererSize' = <<w, h>>
    /\ aspect' = [sc \in Scenes |-> Ratio(w, h)]
    /\ calls' = <<Call("setSize", "renderer", w, h),
                  Call("handleResize", "A", w, h), Call("handleResize", "B", w, h)>>

\* Engine._onResize, run by a listener after the window took size <<w, h>>
OnResize(w, h) ==
    /\ rendererSize' = <<w, h>>
    /\ IF activeScene # Null
       THEN /\ aspect' = [aspect EXCEPT ![activeScene] = Ratio(w, h)]
            /\ calls' = <<Call("setSize", "renderer", w, h),
                          Call("handleResize", activeScene, w, h)>>
       ELSE /\ aspect' = aspect
            /\ calls' = <<Call("setSize", "renderer", w, h)>>

\* the window is resized and the browser dispatches 'resize' to its listeners
Resize(size) ==
    /\ size # winSize
    /\ winSize' = size
    /\ IF Bind(OnResizeMethod) \in listeners
       THEN OnResize(size[1], size[2])
       ELSE /\ calls' = <<>>
            /\ UNCHANGED <<rendererSize, aspect>>
    /\ lastOp' = Op("resize", size, Null)
    /\ UNCHANGED <<isRunning, activeScene, pending, listeners, rendererDisposed,
                   attached, now, clock>>

\* Engine.dispose(); removeChild throws once the canvas is detached
Dispose ==
    /\ isRunning' = FALSE
    /\ listeners' = RemoveEventListener(listeners, OnResizeMethod)
    /\ rendererDisposed' = TRUE
    /\ attached' = FALSE
    /\ calls' = <<Call("dispose", "renderer", 0, 0)>>
    /\ lastOp' = Op("dispose", Null, IF attached THEN Null ELSE "NotFoundError")
    /\ UNCHANGED <<activeScene, pending, winSize, rendererSize, aspect, now, clock>>

\* time passes
Tick ==
    /\ now < MaxTime
    /\ now' = now + 1
    /\ lastOp' = Op("tick", Null, Null)
    /\ calls' = <<>>
    /\ UNCHANGED <<isRunning, activeScene, pending, listeners, winSize, rendererSize,
                   rendererDisposed, attached, aspect, clock>>

NextEngine ==
    \/ \E s \in Scenes \cup {Null} : Run(s) /\ UNCHANGED <<sceneVars, objectVars>>
    \/ Stop /\ UNCHANGED <<sceneVars, objectVars>>
    \/ Frame /\ UNCHANGED <<sceneVars, objectVars>>
    \/ \E size \in WinSizes : Resize(size) /\ UNCHANGED <<sceneVars, objectVars>>
    \/ Dispose /\ UNCHANGED <<sceneVars, objectVars>>
    \/ Tick /\ UNCHANGED <<sceneVars, objectVars>>

\* ================================================================= Scene
GameObjs == {"g1", "g2", "g3"}

RawNodes == {"n1"}

\* objects that have no mesh and are no THREE.Object3D
PlainObjs == {"p1"}

\* GameObject.name: names need not be unique
NameOf(o) == IF o = "g2" THEN "ball" ELSE "box"

Names == {"box", "ball", "none"}

Undefined == "undefined"

\* the graph node of an object given to add/remove: object.mesh or the object
MeshOf(o) == [kind |-> "mesh", of |-> o]

RawNode(o) == [kind |-> "node", of |-> o]

Range(seq) == {seq[i] : i \in DOMAIN seq}

\* Array.prototype.indexOf, 1-based; 0 stands for -1
IndexOf(seq, x) ==
    IF x \in Range(seq)
    THEN CHOOSE i \in DOMAIN seq : seq[i] = x /\ \A j \in 1..(i - 1) : seq[j] # x
    ELSE 0

\* Array.prototype.splice(index, 1)
Splice(seq, index) ==
    [i \in 1..(Len(seq) - 1) |-> IF i < index THEN seq[i] ELSE seq[i + 1]]

\* THREE.Object3D.remove: takes the node out of children when it is there
Object3DRemove(ch, n) ==
    IF IndexOf(ch, n) > 0 THEN Splice(ch, IndexOf(ch, n)) ELSE ch

\* THREE.Object3D.add: a node that has a parent leaves it first, then is pushed
Object3DAdd(ch, n) == Append(Object3DRemove(ch, n), n)

\* Scene._setupDefaultLighting
SetupDefaultLighting(ch) ==
    Object3DAdd(Object3DAdd(ch, [kind |-> "light", of |-> "ambient"]),
                [kind |-> "light", of |-> "directional"])

TrackedKeepAll(objs, o) == objs

\* gameObjects after the indexOf/splice of Scene.remove
TrackedAfterRemove(objs, o) ==
    LET index == IndexOf(objs, o)
    IN IF index > 0 THEN Splice(objs, index) ELSE objs

\* Scene.findByName
FindByName(objs, name) ==
    IF \E i \in DOMAIN objs : NameOf(objs[i]) = name
    THEN objs[CHOOSE i \in DOMAIN objs :
                  /\ NameOf(objs[i]) = name
                  /\ \A j \in 1..(i - 1) : NameOf(objs[j]) # name]
    ELSE Undefined

\* Scene.add(object)
SceneAdd(o) ==
    /\ IF o \in GameObjs
       THEN /\ Len(gameObjects) < MaxTracked
            /\ gameObjects' = Append(gameObjects, o)
            /\ children' = Object3DAdd(children, MeshOf(o))
       ELSE IF o \in RawNodes
       THEN /\ children' = Object3DAdd(children, RawNode(o))
            /\ gameObjects' = gameObjects
       ELSE UNCHANGED <<gameObjects, children>>
    /\ prevOp' = lastOp
    /\ lastOp' = Op("add", o, "this")
    /\ calls' = <<>>

SceneRemoveTrackedOnly(o) ==
    /\ IF o \in GameObjs /\ IndexOf(gameObjects, o) > 0
       THEN /\ gameObjects' = TrackedAfterRemove(gameObjects, o)
            /\ children' = Object3DRemove(children, MeshOf(o))
       ELSE IF o \in RawNodes
       THEN /\ children' = Object3DRemove(children, RawNode(o))
            /\ gameObjects' = gameObjects
       ELSE UNCHANGED <<gameObjects, children>>
    /\ prevOp' = lastOp
    /\ lastOp' = Op("remove", o, "this")
    /\ calls' = <<>>

\* Scene.remove(object)
SceneRemove(o) ==
    /\ IF o \in GameObjs
       THEN /\ gameObjects' = TrackedAfterRemove(gameObjects, o)
            /\ children' = Object3DRemove(children, MeshOf(o))
       ELSE IF o \in RawNodes
       THEN /\ children' = Object3DRemove(children, RawNode(o))
            /\ gameObjects' = gameObjects
       ELSE UNCHANGED <<gameObjects, children>>
    /\ prevOp' = lastOp
    /\ lastOp' = Op("remove", o, "this")
    /\ calls' = <<>>

\* a caller asks Scene.findByName(name)
SceneFindByName(name) ==
    /\ prevOp' = lastOp
    /\ lastOp' = Op("findByName", name, FindByName(gameObjects, name))
    /\ calls' = <<>>
    /\ UNCHANGED <<gameObjects, children>>

\* gameObject.update is there: every GameObject has the method
HasUpdate(o) == o \in GameObjs

SceneUpdateBackwards(delta, elapsed) ==
    /\ calls' = [i \in 1..Len(gameObjects) |->
                    Call("update", gameObjects[Len(gameObjects) + 1 - i], delta, elapsed)]
    /\ prevOp' = lastOp
    /\ lastOp' = Op("update", <<delta, elapsed>>, Null)
    /\ UNCHANGED <<gameObjects, children>>

\* Scene.update(delta, elapsed)
SceneUpdate(delta, elapsed) ==
    /\ calls' = [i \in 1..Len(SelectSeq(gameObjects, HasUpdate)) |->
                    Call("update", SelectSeq(gameObjects, HasUpdate)[i], delta, elapsed)]
    /\ prevOp' = lastOp
    /\ lastOp' = Op("update", <<delta, elapsed>>, Null)
    /\ UNCHANGED <<gameObjects, children>>

\* <<delta, elapsed>> as Scene.update receives them
SceneTimes == {<<1, 1>>, <<2, 3>>}

\* Scene.dispose()
SceneDispose ==
    /\ calls' = [i \in 1..Len(gameObjects) |-> Call("dispose", gameObjects[i], 0, 0)]
    /\ gameObjects' = <<>>
    /\ prevOp' = lastOp
    /\ lastOp' = Op("dispose", Null, Null)
    /\ UNCHANGED children

NextScene ==
    \/ \E o \in GameObjs \cup RawNodes \cup PlainObjs :
          SceneAdd(o) /\ UNCHANGED <<engineVars, objectVars>>
    \/ \E o \in GameObjs \cup RawNodes \cup PlainObjs :
          SceneRemove(o) /\ UNCHANGED <<engineVars, objectVars>>
    \/ \E n \in Names : SceneFindByName(n) /\ UNCHANGED <<engineVars, objectVars>>
    \/ \E t \in SceneTimes :
          SceneUpdate(t[1], t[2]) /\ UNCHANGED <<engineVars, objectVars>>
    \/ SceneDispose /\ UNCHANGED <<engineVars, objectVars>>

\* ============================================================= GameObject
AnimNames == {"spin", "float"}

\* no function registered yet under a name
NoFn == [kind |-> "none", a |-> <<>>, c |-> 0]

\* the closure spin() builds: it captures the three speeds
SpinFn(speeds) == [kind |-> "spin", a |-> speeds, c |-> 0]

\* the closure float() builds: it captures amplitude, speed and startY
FloatFn(opts, startY) == [kind |-> "float", a |-> opts, c |-> startY]

\* callbacks a caller hands to onUpdate:
\*   mirror: obj.mesh.position.x = obj.mesh.position.y
\*   flip:   obj.mesh.position.x = -obj.mesh.position.x
CustomFn(kind) == [kind |-> kind, a |-> <<>>, c |-> 0]

CustomKinds == {"mirror", "flip"}

SpinOpts == {<<0, 1, 0>>, <<1, 0, 0>>}

\* <<amplitude, speed>>
FloatOpts == {<<1, 1>>}

Deltas == {1}

\* elapsed time, counted in quarter periods of the sine (units of pi/2)
Elapseds == {0, 1}

\* Math.sin at n quarter periods
SinQ(n) == CASE n % 4 = 0 -> 0
             [] n % 4 = 1 -> 1
             [] n % 4 = 2 -> 0
             [] OTHER -> -1

ApplySpinPerFrame(fn, t, delta, elapsed) ==
    CASE fn.kind = "spin" ->
            [t EXCEPT !.rotation = <<t.rotation[1] + fn.a[1],
                                     t.rotation[2] + fn.a[2],
                                     t.rotation[3] + fn.a[3]>>]
      [] fn.kind = "float" ->
            [t EXCEPT !.position[2] = fn.c + SinQ(elapsed * fn.a[2]) * fn.a[1]]
      [] fn.kind = "mirror" -> [t EXCEPT !.position[1] = t.position[2]]
      [] fn.kind = "flip" -> [t EXCEPT !.position[1] = 0 - t.position[1]]
      [] OTHER -> t

\* one callback invocation fn(obj, delta, elapsed) on the transform t
Apply(fn, t, delta, elapsed) ==
    CASE fn.kind = "spin" ->
            [t EXCEPT !.rotation = <<t.rotation[1] + fn.a[1] * delta,
                                     t.rotation[2] + fn.a[2] * delta,
                                     t.rotation[3] + fn.a[3] * delta>>]
      [] fn.kind = "float" ->
            [t EXCEPT !.position[2] = fn.c + SinQ(elapsed * fn.a[2]) * fn.a[1]]
      [] fn.kind = "mirror" -> [t EXCEPT !.position[1] = t.position[2]]
      [] fn.kind = "flip" -> [t EXCEPT !.position[1] = 0 - t.position[1]]
      [] OTHER -> t

MapSetAppend(m, name, fn) == Append(m, [name |-> name, fn |-> fn])

MapSetMoveLast(m, name, fn) ==
    Append(SelectSeq(m, LAMBDA e : e.name # name), [name |-> name, fn |-> fn])

\* Map.prototype.set: an existing key keeps its place and takes the new value
MapSet(m, name, fn) ==
    IF \E i \in DOMAIN m : m[i].name = name
    THEN [i \in DOMAIN m |-> IF m[i].name = name THEN [m[i] EXCEPT !.fn = fn] ELSE m[i]]
    ELSE Append(m, [name |-> name, fn |-> fn])

MapDeleteAll(m, name) == <<>>

\* Map.prototype.has
MapHas(m, name) == \E i \in DOMAIN m : m[i].name = name

\* Map.prototype.delete
MapDelete(m, name) == SelectSeq(m, LAMBDA e : e.name # name)

\* the two loops of GameObject.update as one list of invocations
Invocations(anims, customs) ==
    [i \in 1..Len(anims) |-> [phase |-> "named", fn |-> anims[i].fn]] \o
    [i \in 1..Len(customs) |-> [phase |-> "custom", fn |-> customs[i]]]

RECURSIVE RunAll(_, _, _, _, _)
\* invokes todo in order; every invocation works on the mesh the one before left
RunAll(todo, t, delta, elapsed, log) ==
    IF todo = <<>>
    THEN [transform |-> t, log |-> log]
    ELSE LET after == Apply(Head(todo).fn, t, delta, elapsed)
         IN RunAll(Tail(todo), after, delta, elapsed,
                   Append(log, [phase |-> Head(todo).phase, fn |-> Head(todo).fn,
                                seen |-> t, left |-> after]))

RunUpdateCustomFirst(anims, customs, t, delta, elapsed) ==
    RunAll([i \in 1..Len(customs) |-> [phase |-> "custom", fn |-> customs[i]]] \o
           [i \in 1..Len(anims) |-> [phase |-> "named", fn |-> anims[i].fn]],
           t, delta, elapsed, <<>>)

\* GameObject.update(delta, elapsed) on the mesh transform t
RunUpdate(anims, customs, t, delta, elapsed) ==
    RunAll(Invocations(anims, customs), t, delta, elapsed, <<>>)

\* every coordinate stays within the modelled range
InRange(t) ==
    \A f \in {"position", "rotation", "scale"} :
        \A i \in 1..3 : t[f][i] >= 0 - MaxCoord /\ t[f][i] <= MaxCoord

\* GameObject._setAnimation(name, fn)
SetAnimation(name, fn) ==
    /\ animations' = MapSet(animations, name, fn)
    /\ lastSet' = [lastSet EXCEPT ![name] = fn]

\* GameObject.spin({speedX, speedY, speedZ})
Spin(speeds) ==
    /\ SetAnimation("spin", SpinFn(speeds))
    /\ lastOp' = Op("spin", speeds, "this")
    /\ calls' = <<>>
    /\ UNCHANGED <<transform, customUpdates>>

FloatFromOrigin(opts) ==
    /\ SetAnimation("float", FloatFn(opts, 0))
    /\ lastOp' = Op("float", opts, "this")
    /\ calls' = <<>>
    /\ UNCHANGED <<transform, customUpdates>>

\* GameObject.float({amplitude, speed})
Float(opts) ==
    /\ LET startY == transform.position[2]
       IN SetAnimation("float", FloatFn(opts, startY))
    /\ lastOp' = Op("float", opts, "this")
    /\ calls' = <<>>
    /\ UNCHANGED <<transform, customUpdates>>

\* GameObject.onUpdate(fn)
OnUpdate(fn) ==
    /\ Len(customUpdates) < MaxCustom
    /\ customUpdates' = Append(customUpdates, fn)
    /\ lastOp' = Op("onUpdate", fn, "this")
    /\ calls' = <<>>
    /\ UNCHANGED <<transform, animations, lastSet>>

\* GameObject.stopAnimation(name)
StopAnimation(name) ==
    /\ animations' = MapDelete(animations, name)
    /\ lastOp' = Op("stopAnimation", name, "this")
    /\ calls' = <<Call("Map.delete", "_animations", name, MapHas(animations, name))>>
    /\ UNCHANGED <<transform, customUpdates, lastSet>>

ClearAnimationsNamedOnly ==
    /\ animations' = <<>>
    /\ lastOp' = Op("clearAnimations", Null, "this")
    /\ calls' = <<>>
    /\ UNCHANGED <<transform, customUpdates, lastSet>>

\* GameObject.clearAnimations()
ClearAnimations ==
    /\ animations' = <<>>
    /\ customUpdates' = <<>>
    /\ lastOp' = Op("clearAnimations", Null, "this")
    /\ calls' = <<>>
    /\ UNCHANGED <<transform, lastSet>>

\* GameObject.update(delta, elapsed)
Update(delta, elapsed) ==
    LET r == RunUpdate(animations, customUpdates, transform, delta, elapsed)
    IN /\ InRange(r.transform)
       /\ transform' = r.transform
       /\ calls' = r.log
       /\ lastOp' = Op("update", <<delta, elapsed>>, Null)
       /\ UNCHANGED <<animations, customUpdates, lastSet>>

NextObject ==
    \/ \E sp \in SpinOpts : Spin(sp) /\ UNCHANGED <<engineVars, sceneVars, hook>>
    \/ \E fo \in FloatOpts : Float(fo) /\ UNCHANGED <<engineVars, sceneVars, hook>>
    \/ \E k \in CustomKinds : OnUpdate(CustomFn(k)) /\ UNCHANGED <<engineVars, sceneVars, hook>>
    \/ \E n \in AnimNames \cup {"none"} :
          StopAnimation(n) /\ UNCHANGED <<engineVars, sceneVars, hook>>
    \/ ClearAnimations /\ UNCHANGED <<engineVars, sceneVars, hook>>
    \/ \E d \in Deltas, e \in Elapseds :
          Update(d, e) /\ UNCHANGED <<engineVars, sceneVars, hook>>

\* ========================================================= Color resolver
\* A string is its lower-case letters and marks (word) and the set of
\* positions written in upper case (upper).
Str(word, upper) == [word |-> word, upper |-> upper]

\* String.prototype.toLowerCase
ToLowerCase(s) == [s EXCEPT !.upper = {}]

\* the named-color table, values in decimal
NAMED_COLORS ==
    [red |-> 16711680, green |-> 65280, blue |-> 255, white |-> 16777215,
     black |-> 0, yellow |-> 16776960, cyan |-> 65535, magenta |-> 16711935,
     orange |-> 16747520, purple |-> 9109759, pink |-> 16738740, lime |->
     3329330, teal |-> 32896, indigo |-> 4915330, coral |-> 16744272, salmon
     |-> 16416882, gold |-> 16766720, silver |-> 12632256, gray |-> 8421504,
     grey |-> 8421504, lightgray |-> 13882323, darkgray |-> 4210752, sky |->
     8900331, forest |-> 2263842, ocean |-> 27028, sunset |-> 16739125,
     midnight |-> 1644912, steel |-> 4878245, copper |-> 12088115, bronze
     |-> 13467442]

\* the property names NAMED_COLORS inherits from Object.prototype
ObjectPrototype ==
    {Str("constructor", {}), Str("__proto__", {}), Str("tostring", {3}),
     Str("valueof", {6}), Str("hasownproperty", {4, 7}),
     Str("isprototypeof", {3, 12}), Str("tolocalestring", {3, 9}),
     Str("propertyisenumerable", {9, 11})}

Number(n) == [type |-> "number", val |-> n]

UndefinedValue == [type |-> "undefined", val |-> 0]

\* NAMED_COLORS[key]: an own property, else one found on the prototype chain
Lookup(key) ==
    IF key.upper = {} /\ key.word \in DOMAIN NAMED_COLORS
    THEN Number(NAMED_COLORS[key.word])
    ELSE IF key \in ObjectPrototype
    THEN [type |-> IF key.word = "__proto__" THEN "object" ELSE "function",
          val |-> 0]
    ELSE UndefinedValue

DefaultColor == 4886745

\* parseColor(color)
ParseColor(color) ==
    IF color.type = "number"
    THEN color
    ELSE IF color.type = "string"
    THEN LET lowerColor == ToLowerCase(color.val)
         IN IF Lookup(lowerColor).type # "undefined"
            THEN Lookup(lowerColor)
            ELSE color
    ELSE Number(DefaultColor)

\* the words given to the resolver, each with the positions that are tried
\* in upper case as well as in lower case
Letters ==
    ("red" :> 1..3) @@ ("black" :> 1..5) @@ ("teal" :> 1..4) @@
    ("crimson" :> 1..4) @@ ("constructor" :> 1..4) @@ ("tostring" :> {1, 3}) @@
    ("#ff0000" :> 2..3) @@ ("rgb(255, 0, 0)" :> 1..3) @@ ("" :> {})

ColorInputs ==
    UNION {{[type |-> "string", val |-> Str(w, up)] : up \in SUBSET Letters[w]} :
              w \in DOMAIN Letters}
      \cup {Number(0), Number(16711680), [type |-> "undefined", val |-> 0],
            [type |-> "object", val |-> 0], [type |-> "boolean", val |-> 1]}

\* a caller asks parseColor(color)
ParseColorCall(color) ==
    /\ lastOp' = Op("parseColor", color, ParseColor(color))
    /\ calls' = <<>>

NextColor ==
    \E c \in ColorInputs :
        ParseColorCall(c) /\ UNCHANGED <<engineVars, sceneVars, objectVars>>

\* speeds and frame times for an object that only spins
SpinSpeeds == {0 - 1, 0, 1}

SpinDeltas == {0, 1, 2}

NextSpin ==
    \/ \E sx \in SpinSpeeds, sy \in SpinSpeeds, sz \in SpinSpeeds :
          Spin(<<sx, sy, sz>>) /\ UNCHANGED <<engineVars, sceneVars, hook>>
    \/ \E d \in SpinDeltas, e \in Elapseds :
          Update(d, e) /\ UNCHANGED <<engineVars, sceneVars, hook>>

\* <<amplitude, speed>> and elapsed times for an object that only floats
FloatAmpSpeeds == {<<1, 1>>, <<2, 1>>, <<1, 2>>, <<1, 3>>}

FloatElapseds == {0, 1, 2, 3}

NextFloat ==
    \/ \E fo \in FloatAmpSpeeds : Float(fo) /\ UNCHANGED <<engineVars, sceneVars, hook>>
    \/ StopAnimation("float") /\ UNCHANGED <<engineVars, sceneVars, hook>>
    \/ \E d \in Deltas, e \in FloatElapseds :
          Update(d, e) /\ UNCHANGED <<engineVars, sceneVars, hook>>

\* ============================== GameObject.update, clearing callbacks included
\* GameObject.update when a callback may call obj.clearAnimations():
\*   clears: obj.clearAnimations()
\* The state of an update in progress: the mesh transform, the registry, the
\* field _customUpdates and the log of invocations.
Updating(t, anims, customs) ==
    [t |-> t, anims |-> anims, customs |-> customs, log |-> <<>>]

\* clearAnimations() called by a callback: the Map is cleared in place, the
\* field _customUpdates is given a new empty array
ClearIn(st) ==
    [st EXCEPT !.anims = <<>>,
               !.customs = <<>>,
               !.log = Append(@, [phase |-> "clearAnimations", fn |-> NoFn,
                                  seen |-> st.t, left |-> st.t])]

\* fn(this, delta, elapsed) during an update in progress
InvokeIn(st, phase, fn, delta, elapsed) ==
    LET after == Apply(fn, st.t, delta, elapsed)
        invoked == [st EXCEPT !.t = after,
                              !.log = Append(@, [phase |-> phase, fn |-> fn,
                                                 seen |-> st.t, left |-> after])]
    IN IF fn.kind = "clears" THEN ClearIn(invoked) ELSE invoked

RECURSIVE NamedFrom(_, _, _, _)
\* for (const fn of this._animations.values()): the Map iterator goes on
\* over the Map as it is at every turn
NamedFrom(st, i, delta, elapsed) ==
    IF i > Len(st.anims)
    THEN st
    ELSE NamedFrom(InvokeIn(st, "named", st.anims[i].fn, delta, elapsed),
                   i + 1, delta, elapsed)

RECURSIVE CustomFrom(_, _, _, _, _)
\* for (const fn of this._customUpdates): the iterator holds the array the
\* field named when the loop began
CustomFrom(st, array, j, delta, elapsed) ==
    IF j > Len(array)
    THEN st
    ELSE CustomFrom(InvokeIn(st, "custom", array[j], delta, elapsed),
                    array, j + 1, delta, elapsed)

\* GameObject.update(delta, elapsed), callbacks that clear included
UpdateWithCallbacks(delta, elapsed) ==
    LET named == NamedFrom(Updating(transform, animations, customUpdates),
                           1, delta, elapsed)
        st == CustomFrom(named, named.customs, 1, delta, elapsed)
    IN /\ InRange(st.t)
       /\ transform' = st.t
       /\ animations' = st.anims
       /\ customUpdates' = st.customs
       /\ calls' = st.log
       /\ lastOp' = Op("update", <<delta, elapsed>>, Null)
       /\ UNCHANGED lastSet

\* obj._setAnimation(name, fn) called with a callback of the caller's own
SetAnimationCall(name, fn) ==
    /\ SetAnimation(name, fn)
    /\ lastOp' = Op("_setAnimation", name, "this")
    /\ calls' = <<>>
    /\ UNCHANGED <<transform, customUpdates>>

ClearKinds == {"flip", "clears"}

NextClear ==
    \/ \E sp \in SpinOpts : Spin(sp) /\ UNCHANGED <<engineVars, sceneVars, hook>>
    \/ \E n \in AnimNames, k \in ClearKinds :
          SetAnimationCall(n, CustomFn(k)) /\ UNCHANGED <<engineVars, sceneVars, hook>>
    \/ \E k \in ClearKinds : OnUpdate(CustomFn(k)) /\ UNCHANGED <<engineVars, sceneVars, hook>>
    \/ ClearAnimations /\ UNCHANGED <<engineVars, sceneVars, hook>>
    \/ \E d \in Deltas, e \in Elapseds :
          UpdateWithCallbacks(d, e) /\ UNCHANGED <<engineVars, sceneVars, hook>>

\* ========================================== frame step, callbacks included
\* The frame step of the Engine with Scene.update and the update callbacks of
\* the tracked objects carried out.  The Scene of gameObjects/children is
\* scene "A"; scene "B" tracks no object.  A callback given to onUpdate
\*   removes:  scene.remove(g1)
\*   runs:     engine.run(B)
\*   disposes: engine.dispose()
HookKinds == {"removes", "runs", "disposes"}

HookedObjs == {"g1", "g2"}

\* an entry of the call log; step numbers the _animate call it belongs to
Ev(fn, on, arg, step) == [fn |-> fn, on |-> on, arg |-> arg, step |-> step]

\* the fields a frame step reads and writes, as they are when it is entered
Entered(running, scene, pend) ==
    [run |-> running, scene |-> scene, pend |-> pend, ls |-> listeners,
     disposed |-> rendererDisposed, att |-> attached, clk |-> clock,
     objs |-> gameObjects, ch |-> children, log |-> <<>>, steps |-> 0,
     err |-> Null]

\* Scene.gameObjects of a scene
TrackedBy(st, scene) == IF scene = "A" THEN st.objs ELSE <<>>

\* Engine.dispose() called by a callback
DisposeIn(st, id) ==
    [st EXCEPT !.run = FALSE,
               !.ls = RemoveEventListener(@, OnResizeMethod),
               !.disposed = TRUE,
               !.att = FALSE,
               !.err = IF st.att THEN Null ELSE "NotFoundError",
               !.log = Append(@, Ev("Engine.dispose", "engine", Null, id))]

\* Scene.remove(o) called by a callback
RemoveIn(st, o, id) ==
    [st EXCEPT !.objs = TrackedAfterRemove(@, o),
               !.ch = Object3DRemove(@, MeshOf(o)),
               !.log = Append(@, Ev("Scene.remove", "A", o, id))]

RECURSIVE AnimateIn(_)
RECURSIVE UpdateFrom(_, _, _, _)

\* the callback of kind k, called by GameObject.update during step id
HookIn(st, k, id) ==
    CASE k = "removes" -> RemoveIn(st, "g1", id)
      [] k = "runs" ->
            AnimateIn([st EXCEPT !.scene = "B", !.run = TRUE,
                                 !.log = Append(@, Ev("Engine.run", "engine", "B", id))])
      [] k = "disposes" -> DisposeIn(st, id)
      [] OTHER -> st

\* Scene.update: the for...of over this.gameObjects from index i on; the
\* array iterator reads the array's length and element anew at every turn
UpdateFrom(st, scene, i, id) ==
    IF st.err # Null \/ i > Len(TrackedBy(st, scene))
    THEN st
    ELSE LET o == TrackedBy(st, scene)[i]
             called == [st EXCEPT !.log = Append(@, Ev("GameObject.update", o, Null, id))]
         IN UpdateFrom(HookIn(called, hook[o], id), scene, i + 1, id)

\* Engine._animate
AnimateIn(st) ==
    IF ~st.run
    THEN st
    ELSE LET id == st.steps + 1
             d == GetDelta(st.clk, now)
             e == GetElapsedTime(d.clock, now)
             begun == [st EXCEPT !.steps = id,
                                 !.pend = @ + 1,
                                 !.clk = e.clock,
                                 !.log = @ \o <<Ev("_animate", "engine", Null, id),
                                                Ev("requestAnimationFrame", "window",
                                                   Null, id)>>]
             updated == IF begun.scene # Null
                        THEN UpdateFrom([begun EXCEPT !.log =
                                            Append(@, Ev("Scene.update", begun.scene,
                                                         TrackedBy(begun, begun.scene), id))],
                                        begun.scene, 1, id)
                        ELSE begun
             drawn == IF begun.scene # Null /\ updated.err = Null
                      THEN [updated EXCEPT !.log = Append(@, Ev("render", updated.scene,
                                                              updated.disposed, id))]
                      ELSE updated
         IN [drawn EXCEPT !.log = Append(@, Ev("return", "engine", drawn.err, id))]

\* the variables take what a frame step left
Leave(st) ==
    /\ st.pend <= MaxPending
    /\ isRunning' = st.run
    /\ activeScene' = st.scene
    /\ pending' = st.pend
    /\ listeners' = st.ls
    /\ rendererDisposed' = st.disposed
    /\ attached' = st.att
    /\ clock' = st.clk
    /\ gameObjects' = st.objs
    /\ children' = st.ch
    /\ calls' = st.log
    /\ UNCHANGED <<winSize, rendererSize, aspect, now, hook>>

\* Engine.run(scene), callbacks included
RunWithCallbacks(scene) ==
    /\ LET st == AnimateIn(Entered(TRUE, scene, pending))
       IN Leave(st) /\ lastOp' = Op("run", scene, st.err)
    /\ prevOp' = lastOp

\* the browser fires one scheduled frame callback, callbacks included
FrameWithCallbacks ==
    /\ pending > 0
    /\ LET st == AnimateIn(Entered(isRunning, activeScene, pending - 1))
       IN Leave(st) /\ lastOp' = Op("frame", Null, st.err)
    /\ prevOp' = lastOp

\* object.onUpdate(callback)
SetHook(o, k) ==
    /\ hook[o] = "none"
    /\ hook' = [hook EXCEPT ![o] = k]
    /\ prevOp' = lastOp
    /\ lastOp' = Op("onUpdate", <<o, k>>, "this")
    /\ calls' = <<>>
    /\ UNCHANGED <<engineVars, gameObjects, children>>

NextReenter ==
    \/ \E s \in Scenes : RunWithCallbacks(s) /\ UNCHANGED <<transform, animations, customUpdates, lastSet>>
    \/ FrameWithCallbacks /\ UNCHANGED <<transform, animations, customUpdates, lastSet>>
    \/ \E o \in HookedObjs, k \in HookKinds :
          SetHook(o, k) /\ UNCHANGED <<transform, animations, customUpdates, lastSet>>
    \/ \E o \in HookedObjs : SceneAdd(o) /\ UNCHANGED <<engineVars, objectVars>>
    \/ Stop /\ UNCHANGED <<sceneVars, objectVars>>
    \/ Dispose /\ UNCHANGED <<sceneVars, objectVars>>

\* ================================================================= Init
Init ==
    /\ isRunning = FALSE
    /\ activeScene = Null
    /\ pending = 0
    /\ listeners = AddEventListener({}, Bind(OnResizeMethod))
    /\ winSize = <<4, 2>>
    /\ rendererSize = <<4, 2>>
    /\ rendererDisposed = FALSE
    /\ attached = TRUE
    /\ aspect = [s \in Scenes |-> Ratio(4, 2)]
    /\ now = 0
    /\ clock = [running |-> FALSE, oldTime |-> 0, elapsedTime |-> 0]
    /\ gameObjects = <<>>
    /\ children = SetupDefaultLighting(<<>>)
    /\ transform = [position |-> <<0, 0, 0>>, rotation |-> <<0, 0, 0>>,
                    scale |-> <<1, 1, 1>>]
    /\ animations = <<>>
    /\ customUpdates = <<>>
    /\ lastSet = [n \in AnimNames |-> NoFn]
    /\ hook = [o \in GameObjs |-> "none"]
    /\ lastOp = Op("new", Null, Null)
    /\ prevOp = Op("new", Null, Null)
    /\ calls = <<>>

SpecEngine == Init /\ [][NextEngine]_vars

SpecScene == Init /\ [][NextScene]_vars

SpecObject == Init /\ [][NextObject]_vars

\* parseColor applied to strings in every mix of upper and lower case
SpecColor == Init /\ [][NextColor]_vars

\* one GameObject that is only given spin() and update(), over all speeds
SpecSpin == Init /\ [][NextSpin]_vars

\* one GameObject that is only given float(), stopAnimation('float') and
\* update(), over a whole period of the sine
SpecFloat == Init /\ [][NextFloat]_vars

\* one Engine, its scenes and their objects, whose update callbacks call back
\* into the Scene and the Engine
SpecReenter == Init /\ [][NextReenter]_vars

\* one GameObject whose callbacks may call clearAnimations() on it
SpecClear == Init /\ [][NextClear]_vars

\* ================================================================= claims
\* ---- Engine (SpecEngine) ----

RafCount(cs) == Cardinality({i \in DOMAIN cs : cs[i].fn = "requestAnimationFrame"})

\* C1: at most one frame continuation is pending at any time, and a frame
\* callback that fires while the engine is running schedules exactly one.
C1_AtMostOnePending ==
    /\ pending <= 1
    /\ (lastOp.name = "frame" /\ isRunning) => RafCount(calls) = 1

\* C2 as stated: whenever isRunning is false, no frame callback is scheduled.
C2_StoppedNothingScheduled == ~isRunning => pending = 0

\* C2 amended: while isRunning is false no frame callback is newly scheduled;
\* the callbacks scheduled before stop() stay pending until they fire, and a
\* callback that fires then takes itself off without scheduling another.
C2_StoppedSchedulesNothing ==
    [][(~isRunning /\ ~isRunning') =>
          pending' = IF lastOp'.name = "frame" THEN pending - 1 ELSE pending]_vars

C2_Witness == ~isRunning /\ lastOp.name = "frame" /\ pending > 0

\* C3: once stop() was called and run was not called again, a frame callback
\* that fires calls neither Scene.update nor render and schedules no further
\* frame callback.
C3_StoppedFrameIsInert ==
    [][(~isRunning /\ lastOp'.name = "frame") =>
          /\ calls' = <<>>
          /\ RafCount(calls') = 0
          /\ ~isRunning'
          /\ activeScene' = activeScene]_vars

C3_Witness ==
    /\ lastOp.name = "frame"
    /\ ~isRunning
    /\ activeScene \in Scenes
    /\ calls = <<>>
    /\ pending = 0

\* C4: run(B) on a running engine makes B the active scene and neither stops
\* nor duplicates the loop: as many frame continuations are pending after the
\* call as before it.
C4_RunWhileRunningKeepsOneLoop ==
    [][(/\ isRunning
        /\ activeScene \in Scenes
        /\ lastOp'.name = "run"
        /\ lastOp'.arg \in Scenes) =>
          /\ activeScene' = lastOp'.arg
          /\ isRunning'
          /\ pending' = pending]_vars

\* C5: after dispose() a window resize neither resizes the render surface nor
\* calls handleResize on a scene.
C5_DisposedIgnoresResize ==
    [][(rendererDisposed /\ lastOp'.name = "resize") =>
          /\ calls' = <<>>
          /\ rendererSize' = rendererSize
          /\ aspect' = aspect]_vars

\* ---- Scene (SpecScene) ----

\* C6: every Scene Object in the tracked sequence has its mesh in the render
\* graph.
C6_TrackedInGraph ==
    \A i \in DOMAIN gameObjects : MeshOf(gameObjects[i]) \in Range(children)

\* C7: after remove(o) of a Scene Object o, o is not in the tracked sequence
\* and o's mesh is not in the render graph.
C7_RemovedFromBoth ==
    (lastOp.name = "remove" /\ lastOp.arg \in GameObjs) =>
        /\ lastOp.arg \notin Range(gameObjects)
        /\ MeshOf(lastOp.arg) \notin Range(children)

\* C8: on a Scene that tracks nothing, add(o) followed by remove(o) leaves
\* the tracked sequence empty and findByName(o.name) finds nothing.
C8_AddThenRemove ==
    [][(/\ lastOp.name = "add"
        /\ lastOp.arg \in GameObjs
        /\ gameObjects = <<lastOp.arg>>
        /\ lastOp'.name = "remove"
        /\ lastOp'.arg = lastOp.arg) =>
          /\ gameObjects' = <<>>
          /\ FindByName(gameObjects', NameOf(lastOp.arg)) = Undefined]_vars

C8_Witness ==
    /\ prevOp.name = "add"
    /\ prevOp.arg \in GameObjs
    /\ lastOp.name = "remove"
    /\ lastOp.arg = prevOp.arg
    /\ gameObjects = <<>>
    /\ MeshOf(lastOp.arg) \notin Range(children)

\* ---- GameObject (SpecObject) ----

\* C9: the registry holds at most one entry per name, the entry under a name
\* is the function most recently registered under it, and an update invokes
\* no named function other than these.
C9_OneEntryLatestWins ==
    /\ \A i, j \in DOMAIN animations :
          animations[i].name = animations[j].name => i = j
    /\ \A i \in DOMAIN animations :
          animations[i].fn = lastSet[animations[i].name]
    /\ lastOp.name = "update" =>
          \A k \in DOMAIN calls :
              calls[k].phase = "named" =>
                  \E n \in AnimNames : calls[k].fn = lastSet[n]

\* spin() was just called on an object whose spin stood before its float: the
\* entry kept its place, so the call replaced an entry that was there
C9_Witness ==
    /\ lastOp.name = "spin"
    /\ Len(animations) = 2
    /\ animations[1] = [name |-> "spin", fn |-> SpinFn(lastOp.arg)]
    /\ animations[2].name = "float"
    /\ lastOp.arg = <<1, 0, 0>>
    /\ transform.rotation[2] > 0

\* C10: one update call invokes every named-animation function, then every
\* custom-update function in onUpdate order, and each callback works on the
\* transform the callback before it left.
C10_UpdateOrder ==
    [][lastOp'.name = "update" =>
          LET n == Len(animations)
              m == Len(customUpdates)
          IN /\ Len(calls') = n + m
             /\ \A i \in 1..n :
                   calls'[i].phase = "named" /\ calls'[i].fn = animations[i].fn
             /\ \A j \in 1..m :
                   calls'[n + j].phase = "custom" /\ calls'[n + j].fn = customUpdates[j]
             /\ \A i \in 1..(n + m) :
                   calls'[i].seen = IF i = 1 THEN transform ELSE calls'[i - 1].left
             /\ transform' = IF n + m = 0 THEN transform ELSE calls'[n + m].left]_vars

C10_Witness ==
    /\ lastOp.name = "update"
    /\ Len(calls) = 3
    /\ calls[1].phase = "named"
    /\ calls[1].fn.kind = "float"
    /\ calls[1].seen # calls[1].left
    /\ calls[2].fn.kind = "mirror"
    /\ calls[2].seen # calls[2].left
    /\ calls[2].left.position[1] = calls[1].left.position[2]
    /\ calls[3].fn.kind = "flip"
    /\ calls[3].seen # calls[3].left

\* C11: clearAnimations() leaves the named registry and the custom-update
\* list empty, and the update that follows it changes neither position nor
\* rotation nor scale, whatever delta and elapsed are.
C11_ClearThenUpdateIsInert ==
    [][/\ lastOp'.name = "clearAnimations" =>
             (animations' = <<>> /\ customUpdates' = <<>>)
       /\ (lastOp.name = "clearAnimations" /\ lastOp'.name = "update") =>
             (transform' = transform /\ calls' = <<>>)]_vars

\* an update that invoked nothing, on an object whose custom updates once ran
\* (only mirror moves position.x) and were wiped since, as clearAnimations does
C11_Witness ==
    /\ lastOp.name = "update"
    /\ calls = <<>>
    /\ animations = <<>>
    /\ customUpdates = <<>>
    /\ transform.position[1] # 0
    /\ transform.rotation # <<0, 0, 0>>

\* ---- GameObject that only spins (SpecSpin) ----

\* C12: with spin(speedX, speedY, speedZ) as the only animation, every
\* update(delta, elapsed) adds speed * delta to the rotation about each axis,
\* frame after frame, and leaves position and scale alone; spin with speedY = 1
\* and delta = 1 raises the Y rotation by 1 and leaves X and Z.
C12_SpinAddsSpeedTimesDelta ==
    [][/\ lastOp'.name = "spin" =>
             animations' = <<[name |-> "spin", fn |-> lastSet'["spin"]]>>
                /\ lastSet'["spin"].a = lastOp'.arg
       /\ (/\ lastOp'.name = "update"
           /\ Len(animations) = 1
           /\ animations[1].name = "spin"
           /\ customUpdates = <<>>) =>
             LET speed == lastSet["spin"].a
                 delta == lastOp'.arg[1]
             IN /\ \A i \in 1..3 :
                      transform'.rotation[i] =
                          transform.rotation[i] + speed[i] * delta
                /\ transform'.position = transform.position
                /\ transform'.scale = transform.scale]_vars

\* spin({speedY: 1}) on a fresh object, then one update with delta = 1
C12_Witness ==
    /\ lastOp.name = "update"
    /\ lastOp.arg[1] = 1
    /\ animations = <<[name |-> "spin", fn |-> SpinFn(<<0, 1, 0>>)]>>
    /\ Len(calls) = 1
    /\ calls[1].seen.rotation = <<0, 0, 0>>
    /\ transform.rotation = <<0, 1, 0>>
    /\ transform.position = <<0, 0, 0>>

\* ---- Engine (SpecEngine), continued ----

CallsTo(cs, fn) == SelectSeq(cs, LAMBDA c : c.fn = fn)

\* C13: a frame step of a running engine with an active scene calls that
\* scene's update(delta, elapsed) once and then issues one draw call of it,
\* delta being the time since the clock was last read; without an active
\* scene it calls neither and still schedules the next frame.
C13_FrameUpdatesThenDraws ==
    [][(lastOp'.name = "frame" /\ isRunning) =>
          /\ RafCount(calls') = 1
          /\ pending' = pending
          /\ IF activeScene = Null
             THEN CallsTo(calls', "update") = <<>> /\ CallsTo(calls', "render") = <<>>
             ELSE /\ Len(CallsTo(calls', "update")) = 1
                  /\ Len(CallsTo(calls', "render")) = 1
                  /\ calls'[Len(calls') - 1].fn = "update"
                  /\ calls'[Len(calls') - 1].on = activeScene
                  /\ calls'[Len(calls') - 1].a =
                        (IF clock.running THEN now - clock.oldTime ELSE 0)
                  /\ calls'[Len(calls') - 1].b = clock'.elapsedTime
                  /\ calls'[Len(calls')].fn = "render"
                  /\ calls'[Len(calls')].on = activeScene]_vars

C13_Witness ==
    /\ lastOp.name = "frame"
    /\ isRunning
    /\ activeScene = "B"
    /\ Len(calls) = 3
    /\ calls[2] = Call("update", "B", 1, 2)
    /\ calls[3] = Call("render", "B", 0, 0)

\* ---- Scene (SpecScene), continued ----

\* C14: Scene.dispose() calls dispose exactly once on every Scene Object that
\* is tracked, leaves the tracked sequence empty and leaves the render graph
\* as it was.
C14_DisposeOncePerObject ==
    [][lastOp'.name = "dispose" =>
          /\ \A o \in GameObjs :
                Cardinality({i \in DOMAIN calls' :
                                calls'[i].fn = "dispose" /\ calls'[i].on = o})
                   = IF o \in Range(gameObjects) THEN 1 ELSE 0
          /\ gameObjects' = <<>>
          /\ children' = children]_vars

\* ---- Color resolver (SpecColor) ----

\* C15: a string whose lower-cased form is a key of the named-color table
\* resolves to that key's number; every other string is returned unchanged.
C15_StringsResolveOrPassThrough ==
    (lastOp.name = "parseColor" /\ lastOp.arg.type = "string") =>
        LET lower == ToLowerCase(lastOp.arg.val)
        IN IF lower.word \in DOMAIN NAMED_COLORS
           THEN lastOp.ret = Number(NAMED_COLORS[lower.word])
           ELSE lastOp.ret.type = "string" /\ lastOp.ret.val = lastOp.arg.val

\* ---- Engine (SpecEngine), resize ----

\* C16: a resize event on an engine that was not disposed resizes the render
\* surface to the window's new size and calls handleResize(width, height) on
\* the active scene and on no other; without an active scene, on none.
C16_ResizeForwardsToActiveScene ==
    [][(lastOp'.name = "resize" /\ ~rendererDisposed) =>
          LET w == lastOp'.arg[1]
              h == lastOp'.arg[2]
          IN /\ winSize' = <<w, h>>
             /\ rendererSize' = <<w, h>>
             /\ CallsTo(calls', "setSize") = <<Call("setSize", "renderer", w, h)>>
             /\ CallsTo(calls', "handleResize") =
                   (IF activeScene = Null
                    THEN <<>>
                    ELSE <<Call("handleResize", activeScene, w, h)>>)
             /\ \A sc \in Scenes :
                   aspect'[sc] = IF sc = activeScene THEN Ratio(w, h) ELSE aspect[sc]]_vars

C16_Witness ==
    /\ lastOp.name = "resize"
    /\ ~rendererDisposed
    /\ activeScene = "B"
    /\ rendererSize = <<3, 3>>
    /\ calls = <<Call("setSize", "renderer", 3, 3), Call("handleResize", "B", 3, 3)>>
    /\ aspect["B"] = <<1, 1>>
    /\ aspect["A"] = <<2, 1>>

\* ---- Scene (SpecScene), remove and update ----

\* the graph node add and remove take from an object
NodeOf(o) == IF o \in GameObjs THEN MeshOf(o) ELSE RawNode(o)

\* C17: remove(o) of an object that is not tracked returns normally, leaves
\* the tracked sequence as it was, and leaves o's node out of the render graph.
C17_RemoveUntracked ==
    [][(lastOp'.name = "remove" /\ lastOp'.arg \notin Range(gameObjects)) =>
          /\ lastOp'.ret = "this"
          /\ gameObjects' = gameObjects
          /\ NodeOf(lastOp'.arg) \notin Range(children')
          /\ \A n \in Range(children) : n # NodeOf(lastOp'.arg) => n \in Range(children')]_vars

\* a raw node was added, which tracks nothing, and then removed
C17_Witness ==
    /\ prevOp.name = "add"
    /\ prevOp.arg \in RawNodes
    /\ lastOp.name = "remove"
    /\ lastOp.arg = prevOp.arg
    /\ gameObjects # <<>>
    /\ RawNode(lastOp.arg) \notin Range(children)

\* C18: Scene.update(delta, elapsed) calls update(delta, elapsed) once per
\* entry of the tracked sequence, in the order of the sequence, and calls
\* nothing on the raw nodes in the graph.
C18_UpdateFansOutInOrder ==
    [][lastOp'.name = "update" =>
          /\ Len(calls') = Len(gameObjects)
          /\ \A i \in DOMAIN gameObjects :
                calls'[i] = Call("update", gameObjects[i], lastOp'.arg[1], lastOp'.arg[2])
          /\ gameObjects' = gameObjects
          /\ children' = children]_vars

C18_Witness ==
    /\ lastOp.name = "update"
    /\ lastOp.arg = <<2, 3>>
    /\ gameObjects = <<"g2", "g1">>
    /\ RawNode("n1") \in Range(children)
    /\ calls = <<Call("update", "g2", 2, 3), Call("update", "g1", 2, 3)>>

\* ---- GameObject (SpecObject), stopAnimation and the order of the registry ----

\* the names of the registry in its iteration order
NamesIn(m) == [i \in DOMAIN m |-> m[i].name]

\* C19: stopAnimation(name) takes the entry of that name out of the registry
\* and nothing else: the other entries keep their functions and their order,
\* the custom list and the transform stay; with no such entry nothing changes.
C19_StopRemovesOnlyThatEntry ==
    [][lastOp'.name = "stopAnimation" =>
          /\ lastOp'.ret = "this"
          /\ animations' = SelectSeq(animations, LAMBDA e : e.name # lastOp'.arg)
          /\ ~MapHas(animations', lastOp'.arg)
          /\ (~MapHas(animations, lastOp'.arg) => animations' = animations)
          /\ customUpdates' = customUpdates
          /\ transform' = transform]_vars

\* an entry was deleted while another entry and a custom callback were there
C19_Witness ==
    /\ lastOp.name = "stopAnimation"
    /\ lastOp.arg = "float"
    /\ calls = <<Call("Map.delete", "_animations", "float", TRUE)>>
    /\ Len(animations) = 1
    /\ animations[1].name = "spin"
    /\ customUpdates # <<>>

\* C20: registering under a name the registry holds leaves every name at its
\* position; registering under a name it does not hold (never set, or taken
\* out by stopAnimation) puts the new entry last, behind the old entries.
C20_ReRegisterKeepsPosition ==
    [][lastOp'.name \in AnimNames =>
          IF MapHas(animations, lastOp'.name)
          THEN NamesIn(animations') = NamesIn(animations)
          ELSE /\ Len(animations') = Len(animations) + 1
               /\ SubSeq(animations', 1, Len(animations)) = animations
               /\ animations'[Len(animations')].name = lastOp'.name]_vars

\* float was registered again while spin sat behind it, and stayed first
C20_Witness ==
    /\ lastOp.name = "float"
    /\ Len(animations) = 2
    /\ animations[1].name = "float"
    /\ animations[2].name = "spin"
    /\ animations[1].fn = lastSet["float"]

\* ---- GameObject (SpecFloat), float ----

\* the function the registry holds under a name
MapGet(m, name) == m[CHOOSE i \in DOMAIN m : m[i].name = name].fn

\* C21: float() captures the Y the mesh has when it is called; every update
\* with float registered sets Y to center + sin(elapsed * speed) * amplitude,
\* which is the center at elapsed 0, whatever Y was before; a second float()
\* captures the Y of that moment, not the Y the first one captured.
C21_FloatAroundCapturedCenter ==
    [][/\ lastOp'.name = "float" =>
            /\ MapHas(animations', "float")
            /\ MapGet(animations', "float") = FloatFn(lastOp'.arg, transform.position[2])
            /\ transform' = transform
       /\ (lastOp'.name = "update" /\ MapHas(animations, "float")) =>
            LET fn == MapGet(animations, "float")
                elapsed == lastOp'.arg[2]
            IN /\ transform'.position[2] = fn.c + SinQ(elapsed * fn.a[2]) * fn.a[1]
               /\ elapsed = 0 => transform'.position[2] = fn.c
               /\ transform'.position[1] = transform.position[1]
               /\ transform'.position[3] = transform.position[3]]_vars

\* float was called a second time after an update had moved the mesh, and an
\* update then moved the mesh below the new center
C21_Witness ==
    /\ lastOp.name = "update"
    /\ MapHas(animations, "float")
    /\ MapGet(animations, "float").c = 1
    /\ transform.position[2] = 0 - 1

\* ---- Engine (SpecEngine), camera aspect at draw time ----

\* C27: whenever a frame is drawn, the camera of the scene that is drawn has
\* the aspect ratio of the render surface's current width and height.
C27_DrawnWithSurfaceAspect ==
    \A i \in DOMAIN calls :
        calls[i].fn = "render" =>
            aspect[calls[i].on] = Ratio(rendererSize[1], rendererSize[2])

\* ---- frame steps with update callbacks (SpecReenter) ----

\* the last step was a frame step, and calls is its log
IsStep(op) == op.name \in {"run", "frame"}

\* positions of the log that hold a call of fn
At(cs, fn) == {i \in DOMAIN cs : cs[i].fn = fn}

\* C22: frame steps never overlap (no _animate is entered before the one
\* entered before it has returned), and the continuation of a frame step is
\* requested only after its scene update and its draw.
C22_StepsRunToCompletion ==
    IsStep(lastOp) =>
        /\ \A i \in At(calls, "_animate"), j \in At(calls, "_animate") :
              i < j => \E k \in At(calls, "return") :
                          i < k /\ k < j /\ calls[k].step = calls[i].step
        /\ \A i \in At(calls, "requestAnimationFrame") :
              \A j \in At(calls, "Scene.update") \cup At(calls, "render") :
                  calls[j].step = calls[i].step => j < i

\* C23: within one frame step the scene that is updated is the scene that is
\* drawn, also when a callback calls Engine.run with another scene.
C23_UpdatedSceneIsDrawn ==
    IsStep(lastOp) =>
        \A i \in At(calls, "Scene.update"), j \in At(calls, "render") :
            calls[i].step = calls[j].step => calls[i].on = calls[j].on

\* how often o occurs in a sequence
Occurrences(seq, o) == Cardinality({i \in DOMAIN seq : seq[i] = o})

\* C24: when a callback calls Scene.remove during Scene.update, every object
\* tracked when that Scene.update began, other than the removed one, still
\* gets its update exactly once in that call.
C24_RemoveDuringUpdateSkipsNobody ==
    (IsStep(lastOp) /\ lastOp.ret = Null) =>
        \A i \in At(calls, "Scene.update") :
            \A o \in Range(calls[i].arg) :
                (/\ Occurrences(calls[i].arg, o) = 1
                 /\ \E r \in At(calls, "Scene.remove") :
                       calls[r].step = calls[i].step /\ calls[r].arg # o)
                => Cardinality({u \in At(calls, "GameObject.update") :
                                   calls[u].step = calls[i].step /\ calls[u].on = o}) = 1

\* C26: once Engine.dispose() has returned and run is not called again, no
\* Scene.update is called and nothing is drawn, whether dispose was called
\* between frames or by an update callback during a frame step.
C26_NothingAfterDispose ==
    [][IsStep(lastOp') =>
          /\ \A i \in At(calls', "Engine.dispose") :
                \A j \in At(calls', "Scene.update") \cup At(calls', "render") :
                    i < j => \E k \in At(calls', "Engine.run") : i < k /\ k < j
          /\ (rendererDisposed /\ ~isRunning /\ lastOp'.name = "frame") =>
                At(calls', "Scene.update") \cup At(calls', "render") = {}]_vars

\* ---- GameObject.update with clearing callbacks (SpecClear) ----

\* C25: once clearAnimations() has returned, no callback registered before it
\* is invoked again: not by a later update, and not by the update in progress
\* when a named-animation or custom-update callback made the call.
C25_NoInvocationAfterClear ==
    [][lastOp'.name = "update" =>
          /\ lastOp.name = "clearAnimations" => calls' = <<>>
          /\ \A i \in DOMAIN calls', j \in DOMAIN calls' :
                (i < j /\ calls'[i].phase = "clearAnimations") =>
                    calls'[j].phase = "clearAnimations"]_vars

====
